---- MODULE Spec2Model ----
(***************************************************************************)
(* A model of global_lock.h: one process-wide lock whose backing strategy  *)
(* is bound by the preprocessor, the lazy construction of that strategy,   *)
(* lock(), unlock(), and the startup-fatal exits.                          *)
(*                                                                         *)
(* A build is a record of the preprocessor facts the header tests; the     *)
(* #if chain is the operator SelectStrategy.  At run time every thread is  *)
(* a program counter walking the statements of GLOBAL_LOCK_FUNC_NAME and   *)
(* GLOBAL_UNLOCK_FUNC_NAME of the strategy the build bound.                *)
(***************************************************************************)
EXTENDS Integers, FiniteSets, Sequences, TLC

(***************************************************************************)
(* Bounds of the model.                                                    *)
(***************************************************************************)
NumThreads == 2
NumPairs == 2

Threads == 1..NumThreads

(***************************************************************************)
(* Program constants.                                                      *)
(***************************************************************************)
C11_VERSION == 201112
WINNT_VISTA == 1536
VISTA_MAJOR == 6
EXIT_FAILURE == 1
GCC_ATOMIC_MAJOR == 4
GCC_ATOMIC_MINOR == 7
GCC_SYNC_MINOR == 1

(***************************************************************************)
(* Build-time facts.  A value macro that is not defined evaluates to 0 in  *)
(* #if, so 0 stands for "not defined" where the header only compares the   *)
(* value; where it asks defined(X) the fact is a separate boolean.         *)
(***************************************************************************)
Builds ==
    [ stdc_version     : {0, 199901, 201112},   \* __STDC_VERSION__
      stdc_no_threads  : BOOLEAN,               \* defined(__STDC_NO_THREADS__)
      posix_threads    : {0, 200809},           \* _POSIX_THREADS
      win32            : BOOLEAN,               \* defined(_WIN32)
      win32_winnt      : {0, 1281, 1536},       \* _WIN32_WINNT (0x0501, 0x0600)
      stdc_no_atomics  : BOOLEAN,               \* defined(__STDC_NO_ATOMICS__)
      gnuc             : {0, 3, 4, 5},          \* __GNUC__
      gnuc_minor_def   : BOOLEAN,               \* defined(__GNUC_MINOR__)
      gnuc_minor       : {0, 1, 7},             \* __GNUC_MINOR__
      has_builtin_def  : BOOLEAN,               \* defined(__has_builtin)
      hb_atomic        : BOOLEAN,               \* __has_builtin(__atomic_exchange_n)
      hb_sync          : BOOLEAN,               \* __has_builtin(__sync_lock_test_and_set)
      clang            : BOOLEAN,               \* defined(__clang__)
      x86              : BOOLEAN,               \* one of __x86_64__, __amd64__, _M_X64, __i386__, _M_IX86
      posix_prio_sched : BOOLEAN ]              \* defined(_POSIX_PRIORITY_SCHEDULING)

Strategies ==
    {"C11Mutex", "PosixMutex", "WinCS", "AtomicFlag", "GccAtomic", "GccSync"}

LazyStrategies == {"C11Mutex", "WinCS"}
MutexStrategies == {"C11Mutex", "PosixMutex", "WinCS"}
SpinStrategies == {"AtomicFlag", "GccAtomic", "GccSync"}

\* line 66: the guard in front of the whole chain
Win32Guard(b) == b.win32 /\ b.win32_winnt < WINNT_VISTA

\* line 76
C11_THREADS_AVAILABLE(b) == b.stdc_version >= C11_VERSION /\ ~b.stdc_no_threads

\* line 89
PTHREAD_AVAILABLE(b) == ~C11_THREADS_AVAILABLE(b) /\ b.posix_threads > 0

\* line 114
STDSTOMIC_AVAILABLE(b) ==
    /\ ~C11_THREADS_AVAILABLE(b)
    /\ ~PTHREAD_AVAILABLE(b)
    /\ ~b.win32
    /\ b.stdc_version >= C11_VERSION
    /\ ~b.stdc_no_atomics

\* the #elif defined (__GNUC__) branch is reached
GnucBranch(b) ==
    /\ ~C11_THREADS_AVAILABLE(b)
    /\ ~PTHREAD_AVAILABLE(b)
    /\ ~b.win32
    /\ ~STDSTOMIC_AVAILABLE(b)
    /\ b.gnuc > 0

\* lines 120-132
GCC_ATOMIC_BUILTIN_AVAILABLE(b) ==
    /\ GnucBranch(b)
    /\ IF b.has_builtin_def
         THEN b.hb_atomic
         ELSE /\ b.gnuc_minor_def
              /\ \/ b.gnuc > GCC_ATOMIC_MAJOR
                 \/ (b.gnuc = GCC_ATOMIC_MAJOR /\ b.gnuc_minor >= GCC_ATOMIC_MINOR)

GCC_SYNC_BUILTIN_AVAILABLE(b) ==
    /\ GnucBranch(b)
    /\ IF b.has_builtin_def
         THEN ~b.hb_atomic /\ b.hb_sync
         ELSE /\ b.gnuc_minor_def
              /\ ~ \/ b.gnuc > GCC_ATOMIC_MAJOR
                   \/ (b.gnuc = GCC_ATOMIC_MAJOR /\ b.gnuc_minor >= GCC_ATOMIC_MINOR)
              /\ ~b.clang
              /\ b.gnuc = GCC_ATOMIC_MAJOR
              /\ b.gnuc_minor >= GCC_SYNC_MINOR

\* The #if chain with the guard of line 66 left out.
SelectStrategyNoGuard(b) ==
    IF C11_THREADS_AVAILABLE(b) THEN "C11Mutex"
    ELSE IF PTHREAD_AVAILABLE(b) THEN "PosixMutex"
    ELSE IF b.win32 THEN "WinCS"
    ELSE IF STDSTOMIC_AVAILABLE(b) THEN "AtomicFlag"
    ELSE IF b.gnuc > 0
      THEN IF GCC_ATOMIC_BUILTIN_AVAILABLE(b) THEN "GccAtomic"
           ELSE IF GCC_SYNC_BUILTIN_AVAILABLE(b) THEN "GccSync"
           ELSE "BuildError"
    ELSE "BuildError"

\* The preprocessor's walk over lines 66-140: the strategy whose code is
\* compiled into lock(), or "BuildError" when an #error is reached.
SelectStrategy(b) ==
    IF Win32Guard(b) THEN "BuildError"
    ELSE IF C11_THREADS_AVAILABLE(b) THEN "C11Mutex"
    ELSE IF PTHREAD_AVAILABLE(b) THEN "PosixMutex"
    ELSE IF b.win32 THEN "WinCS"
    ELSE IF STDSTOMIC_AVAILABLE(b) THEN "AtomicFlag"
    ELSE IF b.gnuc > 0
      THEN IF GCC_ATOMIC_BUILTIN_AVAILABLE(b) THEN "GccAtomic"
           ELSE IF GCC_SYNC_BUILTIN_AVAILABLE(b) THEN "GccSync"
           ELSE "BuildError"
    ELSE "BuildError"

\* One build for each strategy: the builds the run-time model is run on.
RuntimeBuilds ==
    { CHOOSE b \in Builds : SelectStrategy(b) = k : k \in Strategies }

\* Line 151: the iterations of the busy loop.
BUSY_LOOP_ITERATIONS == 1000

\* One expansion of SPIN_WAIT: what it calls and how often.
SpinWaitBody(op, n) == [op |-> op, iterations |-> n]

\* A SPIN_WAIT chain that asks for sched_yield before the pause instruction.
SPIN_WAIT_YieldFirst(b) ==
    IF C11_THREADS_AVAILABLE(b) \/ PTHREAD_AVAILABLE(b) \/ b.win32
      THEN SpinWaitBody("undefined", 0)
    ELSE IF b.posix_prio_sched THEN SpinWaitBody("sched_yield", 1)
    ELSE IF b.x86 THEN SpinWaitBody("_mm_pause", 1)
    ELSE SpinWaitBody("busy_loop", BUSY_LOOP_ITERATIONS)

\* Lines 143-153: what the macro SPIN_WAIT expands to, "undefined" where
\* the header does not define it.
SPIN_WAIT(b) ==
    IF C11_THREADS_AVAILABLE(b) \/ PTHREAD_AVAILABLE(b) \/ b.win32
      THEN SpinWaitBody("undefined", 0)
    ELSE IF b.x86 THEN SpinWaitBody("_mm_pause", 1)
    ELSE IF b.posix_prio_sched THEN SpinWaitBody("sched_yield", 1)
    ELSE SpinWaitBody("busy_loop", BUSY_LOOP_ITERATIONS)

(***************************************************************************)
(* State.                                                                  *)
(***************************************************************************)
VARIABLES
    build,            \* the build-time facts
    spin_wait,        \* what SPIN_WAIT expands to in the build
    quit_on,          \* the state of the mutex / critical section that
                      \* global_lock_quit was called on, "not_called" before
    nested,           \* the threads inside a lock() they called while holding
    kind,             \* the strategy compiled in ("unbuilt" before the build)
    os,               \* what GetVersionEx reports: dwMajorVersion
    pc,               \* per thread: the statement it is at
    pairsLeft,        \* per thread: lock()/unlock() pairs still to run
    once,             \* mtx_init_once / cs_init_once
    mutex,            \* global_lock_lock_mutex / global_lock_lock_cs
    lock_flag,        \* global_lock_lock_flag / global_lock_lock_int
    winver_checked,   \* static bool winver_checked
    counter,          \* the callers' shared counter
    tmp,              \* per thread: the value it read from counter
    proc,             \* the process: status of exit()
    diag,             \* whether anything was written to stderr
    initCalls,        \* how often mtx_init / InitializeCriticalSection ran
    initFailed,       \* whether mtx_init reported an error
    verCalls,         \* how often is_windows_vista_or_later ran
    verOk             \* whether one of these runs returned true

vars ==
    << build, spin_wait, quit_on, nested, kind, os, pc, pairsLeft, once, mutex,
       lock_flag, winver_checked, counter, tmp, proc, diag, initCalls,
       initFailed, verCalls, verOk >>

OsMajors == {5, 6}

\* The objects as the static initializers of lines 80-134 leave them.
InitialOnce(k) == IF k \in LazyStrategies THEN "uninit" ELSE "none"

InitialMutex(k) ==
    [ state |-> CASE k \in LazyStrategies -> "raw"
                  [] k = "PosixMutex"     -> "constructed"
                  [] OTHER                -> "none",
      owner |-> 0 ]

RunInit(builds) ==
    /\ build \in builds
    /\ kind = SelectStrategy(build)
    /\ spin_wait = SPIN_WAIT(build)
    /\ quit_on = "not_called"
    /\ nested = {}
    /\ os \in (IF kind = "WinCS" THEN OsMajors ELSE {0})
    /\ pc = [t \in Threads |-> "idle"]
    /\ pairsLeft = [t \in Threads |-> NumPairs]
    /\ once = InitialOnce(kind)
    /\ mutex = InitialMutex(kind)
    /\ lock_flag = 0
    /\ winver_checked = FALSE
    /\ counter = 0
    /\ tmp = [t \in Threads |-> 0]
    /\ proc = [state |-> "running", status |-> 0]
    /\ diag = FALSE
    /\ initCalls = 0
    /\ initFailed = FALSE
    /\ verCalls = 0
    /\ verOk = FALSE

Init == RunInit(RuntimeBuilds)

(***************************************************************************)
(* Helpers of the actions.                                                 *)
(***************************************************************************)
Goto(t, where) == pc' = [pc EXCEPT ![t] = where]

At(t, where) == proc.state # "terminated" /\ pc[t] = where

\* The first statement of lock() in the strategy compiled in.
Entry(k) ==
    CASE k = "C11Mutex"   -> "call_once"
      [] k = "PosixMutex" -> "pthread_mutex_lock"
      [] k = "WinCS"      -> "winver_test"
      [] OTHER            -> "test_and_set"

\* exit(EXIT_FAILURE): the caller never returns; the other threads run on
\* until the process is gone.
Exit(t) ==
    /\ proc' = [state |-> "exiting", status |-> EXIT_FAILURE]
    /\ Goto(t, "in_exit")

\* lock() has returned: the caller's critical section begins.
Acquired(t) == Goto(t, "cs_read")

InCS == {"cs_read", "cs_write", "unlock"}

Waiting == {"mtx_lock", "pthread_mutex_lock", "EnterCriticalSection",
            "test_and_set", "SPIN_WAIT"}

(***************************************************************************)
(* The callers.  A thread runs NumPairs times: lock(); read the counter;   *)
(* write it back plus one; unlock().                                       *)
(***************************************************************************)
CallLock(t) ==
    /\ At(t, "idle")
    /\ pairsLeft[t] > 0
    /\ Goto(t, Entry(kind))
    /\ UNCHANGED << spin_wait, quit_on, nested, build, kind, os, pairsLeft, once, mutex, lock_flag,
                    winver_checked, counter, tmp, proc, diag, initCalls,
                    initFailed, verCalls, verOk >>

CsRead(t) ==
    /\ At(t, "cs_read")
    /\ tmp' = [tmp EXCEPT ![t] = counter]
    /\ Goto(t, "cs_write")
    /\ UNCHANGED << spin_wait, quit_on, nested, build, kind, os, pairsLeft, once, mutex, lock_flag,
                    winver_checked, counter, proc, diag, initCalls,
                    initFailed, verCalls, verOk >>

CsWrite(t) ==
    /\ At(t, "cs_write")
    /\ counter' = tmp[t] + 1
    /\ Goto(t, "unlock")
    /\ UNCHANGED << spin_wait, quit_on, nested, build, kind, os, pairsLeft, once, mutex, lock_flag,
                    winver_checked, tmp, proc, diag, initCalls,
                    initFailed, verCalls, verOk >>

(***************************************************************************)
(* lock(), C11 threads: lines 157-160 and init_mtx, lines 83-88.           *)
(***************************************************************************)
\* A once-guard whose test of the flag is not atomic with taking it: a
\* second caller also finds it free while the first one runs the function.
OnceBeginRacy(t, initpc) ==
    /\ once \in {"uninit", "initializing"}
    /\ once' = "initializing"
    /\ Goto(t, initpc)

\* call_once / InitOnceExecuteOnce with the flag still clear: the caller
\* becomes the one that runs the function.
OnceBegin(t, initpc) ==
    /\ once = "uninit"
    /\ once' = "initializing"
    /\ Goto(t, initpc)

\* A once-guard that lets a caller through while the function still runs.
OncePassNoWait(t, nextpc) ==
    /\ once \in {"initializing", "ready"}
    /\ once' = once
    /\ Goto(t, nextpc)

\* call_once / InitOnceExecuteOnce on a flag another caller has taken: the
\* caller is held until the function has returned, and goes on.
OncePass(t, nextpc) ==
    /\ once = "ready"
    /\ once' = once
    /\ Goto(t, nextpc)

CallOnce(t) ==
    /\ At(t, "call_once")
    /\ OnceBegin(t, "init_mtx") \/ OncePass(t, "mtx_lock")
    /\ UNCHANGED << spin_wait, quit_on, nested, build, kind, os, pairsLeft, mutex, lock_flag,
                    winver_checked, counter, tmp, proc, diag, initCalls,
                    initFailed, verCalls, verOk >>

\* init_mtx that goes on after a failed mtx_init.
InitMtxIgnoreError(t) ==
    /\ At(t, "init_mtx")
    /\ initCalls' = initCalls + 1
    /\ \E r \in {"thrd_success", "thrd_error"} :
         /\ mutex' = [mutex EXCEPT !.state = IF r = "thrd_success" THEN "constructed" ELSE @]
         /\ initFailed' = (r # "thrd_success")
         /\ Goto(t, "call_once_ret")
         /\ UNCHANGED << diag, proc >>
    /\ UNCHANGED << spin_wait, quit_on, nested, build, kind, os, pairsLeft, once, lock_flag,
                    winver_checked, counter, tmp, verCalls, verOk >>

InitMtx(t) ==
    /\ At(t, "init_mtx")
    /\ initCalls' = initCalls + 1
    /\ \E r \in {"thrd_success", "thrd_error"} :
         IF r = "thrd_success"
           THEN /\ mutex' = [mutex EXCEPT !.state = "constructed"]
                /\ Goto(t, "call_once_ret")
                /\ UNCHANGED << diag, proc, initFailed >>
           ELSE /\ diag' = TRUE        \* fprintf(stderr, ...)
                /\ initFailed' = TRUE
                /\ Exit(t)
                /\ UNCHANGED mutex
    /\ UNCHANGED << spin_wait, quit_on, nested, build, kind, os, pairsLeft, once, lock_flag,
                    winver_checked, counter, tmp, verCalls, verOk >>

\* The function has returned: the once-guard is complete.
OnceEnd(t, here, nextpc) ==
    /\ At(t, here)
    /\ once' = "ready"
    /\ Goto(t, nextpc)
    /\ UNCHANGED << spin_wait, quit_on, nested, build, kind, os, pairsLeft, mutex, lock_flag,
                    winver_checked, counter, tmp, proc, diag, initCalls,
                    initFailed, verCalls, verOk >>

CallOnceRet(t) == OnceEnd(t, "call_once_ret", "mtx_lock")

\* A blocking acquire that does not look at the owner.
BlockingAcquireNoWait(t, here) ==
    /\ At(t, here)
    /\ mutex' = [mutex EXCEPT !.owner = t]
    /\ Acquired(t)
    /\ UNCHANGED << spin_wait, quit_on, nested, build, kind, os, pairsLeft, once, lock_flag,
                    winver_checked, counter, tmp, proc, diag, initCalls,
                    initFailed, verCalls, verOk >>

\* mtx_lock / pthread_mutex_lock / EnterCriticalSection: the caller is held
\* while another thread owns the object.  On an object that was never
\* constructed the call is undefined: any outcome, acquiring included.
BlockingAcquire(t, here) ==
    /\ At(t, here)
    /\ mutex.state = "constructed" => mutex.owner = 0
    /\ mutex' = [mutex EXCEPT !.owner = t]
    /\ Acquired(t)
    /\ UNCHANGED << spin_wait, quit_on, nested, build, kind, os, pairsLeft, once, lock_flag,
                    winver_checked, counter, tmp, proc, diag, initCalls,
                    initFailed, verCalls, verOk >>

MtxLock(t) == BlockingAcquire(t, "mtx_lock")

(***************************************************************************)
(* lock(), POSIX threads: line 162.                                        *)
(***************************************************************************)
PthreadMutexLock(t) == BlockingAcquire(t, "pthread_mutex_lock")

(***************************************************************************)
(* lock(), Windows: lines 164-173, with is_windows_vista_or_later, lines   *)
(* 106-113, and InitCriticalSection, lines 99-103.                         *)
(***************************************************************************)
\* A read of winver_checked that never sees the stored true.
WinverReadAlwaysFalse(t) == {FALSE}

\* What a read of the plain bool winver_checked can give.  The variable is
\* read and written without synchronization: a thread that has not been
\* through lock() before can still see false after another thread stored
\* true.
WinverRead(t) ==
    {winver_checked} \cup (IF pairsLeft[t] = NumPairs THEN {FALSE} ELSE {})

WinverTest(t) ==
    /\ At(t, "winver_test")
    /\ \E v \in WinverRead(t) :
         IF v = FALSE
           THEN Goto(t, "is_windows_vista_or_later")
           ELSE Goto(t, "InitOnceExecuteOnce")
    /\ UNCHANGED << spin_wait, quit_on, nested, build, kind, os, pairsLeft, once, mutex, lock_flag,
                    winver_checked, counter, tmp, proc, diag, initCalls,
                    initFailed, verCalls, verOk >>

\* is_windows_vista_or_later, given whether GetVersionEx succeeded and the
\* major version it stored.
is_windows_vista_or_later(got, major) ==
    IF ~got THEN FALSE ELSE major >= VISTA_MAJOR

\* The version check with its result ignored.
VersionCheckIgnored(t) ==
    /\ At(t, "is_windows_vista_or_later")
    /\ verCalls' = verCalls + 1
    /\ \E got \in BOOLEAN :
         /\ verOk' = (verOk \/ is_windows_vista_or_later(got, os))
         /\ Goto(t, "winver_set")
         /\ UNCHANGED proc
    /\ UNCHANGED << spin_wait, quit_on, nested, build, kind, os, pairsLeft, once, mutex, lock_flag,
                    winver_checked, counter, tmp, diag, initCalls,
                    initFailed >>

VersionCheck(t) ==
    /\ At(t, "is_windows_vista_or_later")
    /\ verCalls' = verCalls + 1
    /\ \E got \in BOOLEAN :
         IF ~is_windows_vista_or_later(got, os)
           THEN /\ Exit(t)
                /\ UNCHANGED verOk
           ELSE /\ verOk' = TRUE
                /\ Goto(t, "winver_set")
                /\ UNCHANGED proc
    /\ UNCHANGED << spin_wait, quit_on, nested, build, kind, os, pairsLeft, once, mutex, lock_flag,
                    winver_checked, counter, tmp, diag, initCalls,
                    initFailed >>

WinverSet(t) ==
    /\ At(t, "winver_set")
    /\ winver_checked' = TRUE
    /\ Goto(t, "InitOnceExecuteOnce")
    /\ UNCHANGED << spin_wait, quit_on, nested, build, kind, os, pairsLeft, once, mutex, lock_flag,
                    counter, tmp, proc, diag, initCalls, initFailed,
                    verCalls, verOk >>

InitOnceExecuteOnce(t) ==
    /\ At(t, "InitOnceExecuteOnce")
    /\ \/ OnceBegin(t, "InitCriticalSection")
       \/ OncePass(t, "EnterCriticalSection")
    /\ UNCHANGED << spin_wait, quit_on, nested, build, kind, os, pairsLeft, mutex, lock_flag,
                    winver_checked, counter, tmp, proc, diag, initCalls,
                    initFailed, verCalls, verOk >>

InitCriticalSection(t) ==
    /\ At(t, "InitCriticalSection")
    /\ initCalls' = initCalls + 1
    /\ mutex' = [mutex EXCEPT !.state = "constructed"]
    /\ Goto(t, "InitOnce_ret")
    /\ UNCHANGED << spin_wait, quit_on, nested, build, kind, os, pairsLeft, once, lock_flag,
                    winver_checked, counter, tmp, proc, diag, initFailed,
                    verCalls, verOk >>

InitOnceRet(t) == OnceEnd(t, "InitOnce_ret", "EnterCriticalSection")

EnterCriticalSection(t) == BlockingAcquire(t, "EnterCriticalSection")

(***************************************************************************)
(* lock(), the three spin-locks: lines 175-185.  The flag and the int take *)
(* the same two values; the three exchanges store 1 and return the old     *)
(* value in one atomic step.                                               *)
(***************************************************************************)
\* A test followed by a set that is no longer one atomic step: the flag is
\* only set by the caller that found it clear, after it went on.
TestAndSetSplit(t) ==
    /\ At(t, "test_and_set")
    /\ IF lock_flag = 0
         THEN Acquired(t)
         ELSE Goto(t, "SPIN_WAIT")
    /\ UNCHANGED << spin_wait, quit_on, nested, build, kind, os, pairsLeft, once, mutex, lock_flag,
                    winver_checked, counter, tmp, proc, diag, initCalls,
                    initFailed, verCalls, verOk >>

\* A lock with owner tracking: a second lock() of the holder returns.
TestAndSetRecursive(t) ==
    /\ At(t, "test_and_set")
    /\ lock_flag' = 1
    /\ IF lock_flag = 0 \/ t \in nested
         THEN Acquired(t)
         ELSE Goto(t, "SPIN_WAIT")
    /\ UNCHANGED << spin_wait, quit_on, nested, build, kind, os, pairsLeft, once, mutex,
                    winver_checked, counter, tmp, proc, diag, initCalls,
                    initFailed, verCalls, verOk >>

\* An exchange that stores the opposite of what it found: a failed attempt
\* clears the flag.
TestAndSetToggle(t) ==
    /\ At(t, "test_and_set")
    /\ lock_flag' = 1 - lock_flag
    /\ IF lock_flag = 0
         THEN Acquired(t)
         ELSE Goto(t, "SPIN_WAIT")
    /\ UNCHANGED << spin_wait, quit_on, nested, build, kind, os, pairsLeft, once, mutex,
                    winver_checked, counter, tmp, proc, diag, initCalls,
                    initFailed, verCalls, verOk >>

\* A lock that gives way: a caller does not take the free lock while
\* another thread is waiting for it.
TestAndSetGivesWay(t) ==
    /\ At(t, "test_and_set")
    /\ IF lock_flag = 0 /\ \A u \in Threads \ {t} : pc[u] \notin {"test_and_set", "SPIN_WAIT"}
         THEN lock_flag' = 1 /\ Acquired(t)
         ELSE UNCHANGED lock_flag /\ Goto(t, "SPIN_WAIT")
    /\ UNCHANGED << spin_wait, quit_on, nested, build, kind, os, pairsLeft, once, mutex,
                    winver_checked, counter, tmp, proc, diag, initCalls,
                    initFailed, verCalls, verOk >>

TestAndSet(t) ==
    /\ At(t, "test_and_set")
    /\ lock_flag' = 1
    /\ IF lock_flag = 0
         THEN Acquired(t)
         ELSE Goto(t, "SPIN_WAIT")
    /\ UNCHANGED << spin_wait, quit_on, nested, build, kind, os, pairsLeft, once, mutex,
                    winver_checked, counter, tmp, proc, diag, initCalls,
                    initFailed, verCalls, verOk >>

\* A retry loop with a cap of one retry: after SPIN_WAIT lock() returns.
SpinWaitGivesUp(t) ==
    /\ At(t, "SPIN_WAIT")
    /\ Acquired(t)
    /\ UNCHANGED << spin_wait, quit_on, nested, build, kind, os, pairsLeft, once, mutex, lock_flag,
                    winver_checked, counter, tmp, proc, diag, initCalls,
                    initFailed, verCalls, verOk >>

\* Lines 176, 180, 184: SPIN_WAIT() has no state; the loop tests again.
SpinWait(t) ==
    /\ At(t, "SPIN_WAIT")
    /\ Goto(t, "test_and_set")
    /\ UNCHANGED << spin_wait, quit_on, nested, build, kind, os, pairsLeft, once, mutex, lock_flag,
                    winver_checked, counter, tmp, proc, diag, initCalls,
                    initFailed, verCalls, verOk >>

(***************************************************************************)
(* unlock(): lines 190-204.                                                *)
(***************************************************************************)
\* The caller's position after unlock() has returned.
AfterUnlock(t) ==
    /\ pairsLeft' = [pairsLeft EXCEPT ![t] = @ - 1]
    /\ Goto(t, IF pairsLeft[t] = 1 THEN "done" ELSE "idle")

\* An unlock() that returns without releasing.
UnlockNoRelease(t) ==
    /\ proc.state # "terminated"
    /\ pc[t] \in {"unlock", "unlock_misuse"}
    /\ AfterUnlock(t)
    /\ UNCHANGED << spin_wait, quit_on, nested, build, kind, os, once, mutex, lock_flag, winver_checked,
                    counter, tmp, proc, diag, initCalls, initFailed,
                    verCalls, verOk >>

\* mtx_unlock / pthread_mutex_unlock / LeaveCriticalSection by the owner
\* release the object; by another thread the call is undefined: the object
\* is released or stays owned.  The spin-locks store 0.
Unlock(t) ==
    /\ proc.state # "terminated"
    /\ pc[t] \in {"unlock", "unlock_misuse"}
    /\ IF kind \in MutexStrategies
         THEN /\ \E o \in {0} \cup (IF mutex.owner = t THEN {} ELSE {mutex.owner}) :
                   mutex' = [mutex EXCEPT !.owner = o]
              /\ UNCHANGED lock_flag
         ELSE /\ lock_flag' = 0
              /\ UNCHANGED mutex
    /\ AfterUnlock(t)
    /\ UNCHANGED << spin_wait, quit_on, nested, build, kind, os, once, winver_checked, counter, tmp,
                    proc, diag, initCalls, initFailed, verCalls, verOk >>

\* The threads that may break the contract.
Misusers == {1}

\* A caller outside the contract: in place of one of its pairs it calls
\* unlock() without holding the lock.  Only the spin-locks define what
\* this does.
CallUnlockMisuse(t) ==
    /\ t \in Misusers
    /\ At(t, "idle")
    /\ pairsLeft[t] > 0
    /\ kind \in SpinStrategies
    /\ Goto(t, "unlock_misuse")
    /\ UNCHANGED << spin_wait, quit_on, nested, build, kind, os, pairsLeft, once, mutex, lock_flag,
                    winver_checked, counter, tmp, proc, diag, initCalls,
                    initFailed, verCalls, verOk >>

\* A caller that has acquired the lock and never calls unlock().
HoldForever(t) ==
    /\ At(t, "unlock")
    /\ Goto(t, "never_unlocks")
    /\ UNCHANGED << spin_wait, quit_on, nested, build, kind, os, pairsLeft, once, mutex, lock_flag,
                    winver_checked, counter, tmp, proc, diag, initCalls,
                    initFailed, verCalls, verOk >>

\* The threads that may call lock() while holding the lock.
Nesters == {NumThreads}

\* A spin-lock caller outside the contract: in its last pair, holding the
\* lock, it calls lock() a second time.  nested records who did.
CallLockAgain(t) ==
    /\ t \in Nesters
    /\ At(t, "cs_read")
    /\ kind \in SpinStrategies
    /\ pairsLeft[t] = 1
    /\ t \notin nested
    /\ nested' = nested \cup {t}
    /\ Goto(t, Entry(kind))
    /\ UNCHANGED << spin_wait, quit_on, build, kind, os, pairsLeft, once, mutex, lock_flag,
                    winver_checked, counter, tmp, proc, diag, initCalls,
                    initFailed, verCalls, verOk >>

\* Callers that loop forever: their critical section flips the shared
\* datum instead of counting up, and a thread starts over when its pairs
\* are used up.
LoopCsWrite(t) ==
    /\ At(t, "cs_write")
    /\ counter' = 1 - tmp[t]
    /\ Goto(t, "unlock")
    /\ UNCHANGED << spin_wait, quit_on, nested, build, kind, os, pairsLeft, once, mutex, lock_flag,
                    winver_checked, tmp, proc, diag, initCalls,
                    initFailed, verCalls, verOk >>

Restart(t) ==
    /\ At(t, "done")
    /\ pairsLeft' = [pairsLeft EXCEPT ![t] = NumPairs]
    /\ Goto(t, "idle")
    /\ UNCHANGED << spin_wait, quit_on, nested, build, kind, os, once, mutex, lock_flag,
                    winver_checked, counter, tmp, proc, diag, initCalls,
                    initFailed, verCalls, verOk >>

(***************************************************************************)
(* exit(): the process ends some time after the call.                      *)
(***************************************************************************)
Terminate ==
    /\ proc.state = "exiting"
    /\ proc' = [proc EXCEPT !.state = "terminated"]
    /\ UNCHANGED << spin_wait, quit_on, nested, build, kind, os, pc, pairsLeft, once, mutex, lock_flag,
                    winver_checked, counter, tmp, diag, initCalls,
                    initFailed, verCalls, verOk >>

(***************************************************************************)
(* global_lock_quit(), lines 207-215.  quit_on records what the call was   *)
(* applied to: the state of the mutex object, or of the flag.              *)
(***************************************************************************)
QuitSees ==
    IF kind \in MutexStrategies THEN mutex.state
    ELSE IF lock_flag = 0 THEN "flag_clear" ELSE "flag_set"

\* A quit that also clears the flag of the spin-locks.
global_lock_quit_ClearsFlag ==
    /\ proc.state # "terminated"
    /\ quit_on' = QuitSees
    /\ IF kind \in MutexStrategies
         THEN /\ \E s \in (IF mutex.state = "constructed"
                             THEN {"destroyed"} ELSE {mutex.state, "destroyed"}) :
                    mutex' = [mutex EXCEPT !.state = s]
              /\ UNCHANGED lock_flag
         ELSE /\ lock_flag' = 0
              /\ UNCHANGED mutex
    /\ UNCHANGED << spin_wait, nested, build, kind, os, pc, pairsLeft, once,
                    winver_checked, counter, tmp, proc, diag,
                    initCalls, initFailed, verCalls, verOk >>

\* mtx_destroy / pthread_mutex_destroy / DeleteCriticalSection, with no test
\* of whether the object was ever constructed: applied to an object that is
\* not constructed the behaviour is undefined (the object is left as it is,
\* or taken for destroyed).  The spin-lock builds compile to an empty body.
global_lock_quit ==
    /\ proc.state # "terminated"
    /\ quit_on' = QuitSees
    /\ IF kind \in MutexStrategies
         THEN \E s \in (IF mutex.state = "constructed"
                          THEN {"destroyed"} ELSE {mutex.state, "destroyed"}) :
                 mutex' = [mutex EXCEPT !.state = s]
         ELSE UNCHANGED mutex
    /\ UNCHANGED << spin_wait, nested, build, kind, os, pc, pairsLeft, once,
                    lock_flag, winver_checked, counter, tmp, proc, diag,
                    initCalls, initFailed, verCalls, verOk >>

\* The caller contract of global_lock_quit: once, when the program
\* terminates, after every thread has stopped using the lock.
QuitInContract ==
    /\ quit_on = "not_called"
    /\ proc.state = "running"
    /\ \A t \in Threads : pc[t] \in {"idle", "done"}
    /\ global_lock_quit

\* A spin-lock caller that calls global_lock_quit at any moment, once.
QuitAnyTime ==
    /\ quit_on = "not_called"
    /\ kind \in SpinStrategies
    /\ global_lock_quit

(***************************************************************************)
(* The specifications.                                                     *)
(***************************************************************************)
LockStep(t) ==
    \/ CallOnce(t)
    \/ InitMtx(t)
    \/ CallOnceRet(t)
    \/ MtxLock(t)
    \/ PthreadMutexLock(t)
    \/ WinverTest(t)
    \/ VersionCheck(t)
    \/ WinverSet(t)
    \/ InitOnceExecuteOnce(t)
    \/ InitCriticalSection(t)
    \/ InitOnceRet(t)
    \/ EnterCriticalSection(t)
    \/ TestAndSet(t)
    \/ SpinWait(t)

ThreadStep(t) ==
    \/ CallLock(t)
    \/ LockStep(t)
    \/ CsRead(t)
    \/ CsWrite(t)
    \/ Unlock(t)

Next ==
    \/ \E t \in Threads : ThreadStep(t)
    \/ Terminate

\* Callers that keep the contract.
Spec == Init /\ [][Next]_vars

\* The scheduler runs every thread that can take a step, and exit() ends.
FairSpec ==
    /\ Spec
    /\ \A t \in Threads : WF_vars(ThreadStep(t))
    /\ WF_vars(Terminate)

MisuseNext ==
    \/ Next
    \/ \E t \in Threads : CallUnlockMisuse(t)

\* Callers that may call unlock() without holding the lock.
MisuseSpec == Init /\ [][MisuseNext]_vars

(***************************************************************************)
(* The build alone: every combination of the build-time facts, compiled.   *)
(***************************************************************************)
BuildInit ==
    /\ build \in Builds
    /\ kind = "unbuilt"
    /\ spin_wait = SpinWaitBody("unbuilt", 0)
    /\ quit_on = "not_called"
    /\ nested = {}
    /\ os = 0
    /\ pc = [t \in Threads |-> "idle"]
    /\ pairsLeft = [t \in Threads |-> NumPairs]
    /\ once = "none"
    /\ mutex = [state |-> "none", owner |-> 0]
    /\ lock_flag = 0
    /\ winver_checked = FALSE
    /\ counter = 0
    /\ tmp = [t \in Threads |-> 0]
    /\ proc = [state |-> "running", status |-> 0]
    /\ diag = FALSE
    /\ initCalls = 0
    /\ initFailed = FALSE
    /\ verCalls = 0
    /\ verOk = FALSE

Compile ==
    /\ kind = "unbuilt"
    /\ kind' = SelectStrategy(build)
    /\ spin_wait' = SPIN_WAIT(build)
    /\ UNCHANGED << quit_on, nested, build, os, pc, pairsLeft, once, mutex, lock_flag,
                    winver_checked, counter, tmp, proc, diag, initCalls,
                    initFailed, verCalls, verOk >>

BuildSpec == BuildInit /\ [][Compile]_vars

\* Callers of which any may keep the lock for good.
StarveNext ==
    \/ Next
    \/ \E t \in Threads : HoldForever(t)

StarveSpec == Init /\ [][StarveNext]_vars

\* Another thread calls unlock() while a thread is inside its second lock().
UnlockForNested(t) ==
    /\ \E u \in nested \ {t} : pc[u] \in {"test_and_set", "SPIN_WAIT"}
    /\ CallUnlockMisuse(t)

\* Spin-lock callers of which one may call lock() while holding the lock,
\* and another may then call unlock() in its place.
RecursiveNext ==
    \/ Next
    \/ \E t \in Threads : CallLockAgain(t)
    \/ \E t \in Threads : UnlockForNested(t)

RecursiveSpec == Init /\ [][RecursiveNext]_vars

\* The program with callers that loop forever.
LoopThreadStep(t) ==
    \/ CallLock(t)
    \/ LockStep(t)
    \/ CsRead(t)
    \/ LoopCsWrite(t)
    \/ Unlock(t)
    \/ Restart(t)

LoopNext ==
    \/ \E t \in Threads : LoopThreadStep(t)
    \/ Terminate

\* One schedule of the looping spin-lock program: the scheduler runs the
\* exchange of one thread, the victim, only at moments when the flag is
\* set.  The other threads, the contenders, run as they come.
Victim == 1

VictimStep ==
    \/ CallLock(Victim)
    \/ lock_flag = 1 /\ TestAndSet(Victim)
    \/ SpinWait(Victim)

ContenderStep(c) ==
    \/ CallLock(c)
    \/ TestAndSet(c)
    \/ SpinWait(c)
    \/ CsRead(c)
    \/ LoopCsWrite(c)
    \/ Unlock(c)
    \/ Restart(c)

UnfairNext ==
    \/ VictimStep
    \/ \E c \in Threads \ {Victim} : ContenderStep(c)

UnfairInit == Init /\ kind \in SpinStrategies

\* The schedule never stops running a thread for good: the victim's steps,
\* enabled again and again, are taken again and again.
UnfairSpec ==
    /\ UnfairInit
    /\ [][UnfairNext]_vars
    /\ SF_vars(VictimStep)
    /\ \A c \in Threads \ {Victim} : WF_vars(ContenderStep(c))

\* The program under the caller contract of global_lock_quit: the threads
\* run until the program calls global_lock_quit, and not after it.
QuitNext ==
    \/ quit_on = "not_called" /\ Next
    \/ QuitInContract

QuitSpec == Init /\ [][QuitNext]_vars

\* A spin-lock program that calls global_lock_quit while the lock is in use.
QuitAnyTimeNext ==
    \/ Next
    \/ QuitAnyTime

QuitAnyTimeSpec == Init /\ [][QuitAnyTimeNext]_vars

(***************************************************************************)
(* Properties.                                                             *)
(***************************************************************************)
AllDone == \A t \in Threads : pc[t] = "done"

LockFree == lock_flag = 0 /\ mutex.owner = 0

\* C1: mutual exclusion.  In every strategy, at most one thread is between
\* the return of its lock() and the start of its unlock().
MutualExclusion ==
    Cardinality({t \in Threads : pc[t] \in InCS}) <= 1

\* A thread holds the lock while another one is held back in lock().
MutualExclusionWitness ==
    \E t, u \in Threads :
        /\ t # u
        /\ pc[t] \in InCS
        /\ pc[u] \in Waiting

\* C2: no lost updates.  When all threads have run their pairs the counter
\* is NumThreads * NumPairs, and between a thread's read of the counter and
\* its write no other thread has changed the counter.
NoLostUpdates ==
    /\ AllDone => counter = NumThreads * NumPairs
    /\ \A t \in Threads : pc[t] = "cs_write" => tmp[t] = counter
    /\ \A t, u \in Threads :
         (t # u /\ pc[t] = "cs_write") => pc[u] \notin {"cs_read", "cs_write"}

NoLostUpdatesWitness ==
    /\ AllDone
    /\ counter = NumThreads * NumPairs
    /\ kind \in SpinStrategies

\* Some thread has returned from lock() at least once.
SomeLockReturned ==
    \E t \in Threads : pc[t] \in InCS \cup {"done"} \/ pairsLeft[t] < NumPairs

\* C3: lazy construction exactly once.  In the strategies with lazy
\* construction, mtx_init / InitializeCriticalSection runs at most once; the
\* once-flag only moves uninit -> initializing -> ready; and as soon as any
\* lock() has returned it has run exactly once and the flag is ready.
LazyInitOnce ==
    [][ /\ initCalls' <= 1
        /\ once' # once =>
             \/ once = "uninit" /\ once' = "initializing"
             \/ once = "initializing" /\ once' = "ready"
        /\ (kind \in LazyStrategies /\ SomeLockReturned') =>
             /\ once' = "ready"
             /\ initCalls' = 1
             /\ mutex'.state = "constructed" ]_vars

\* Every thread has run all its pairs on one lazily constructed object.
LazyInitOnceWitness ==
    /\ kind \in LazyStrategies
    /\ AllDone
    /\ initCalls = 1
    /\ once = "ready"

OnceGuardPcs == {"call_once", "InitOnceExecuteOnce"}
ConstructingPcs == {"init_mtx", "call_once_ret", "InitCriticalSection", "InitOnce_ret"}
AcquirePcs == {"mtx_lock", "EnterCriticalSection"}

\* C4: concurrent first callers wait for the construction.  No thread is at
\* mtx_lock / EnterCriticalSection or beyond unless the once-flag is ready
\* and the object constructed; at most one thread is constructing; a caller
\* at the once-guard cannot take a step while the flag is initializing.
WaitForConstruction ==
    kind \in LazyStrategies =>
        /\ \A t \in Threads :
             pc[t] \in AcquirePcs \cup InCS =>
                 once = "ready" /\ mutex.state = "constructed"
        /\ Cardinality({t \in Threads : pc[t] \in ConstructingPcs}) <= 1
        /\ \A t \in Threads :
             (pc[t] \in OnceGuardPcs /\ once = "initializing") =>
                 ~ENABLED ThreadStep(t)

\* One thread constructs while another first caller is at the once-guard.
WaitForConstructionWitness ==
    \E t, u \in Threads :
        /\ t # u
        /\ pc[t] \in {"init_mtx", "InitCriticalSection"}
        /\ pc[u] \in OnceGuardPcs

\* The process has ended with a startup-fatal exit.
StartupFailed == proc.state = "terminated"

\* C5: no deadlock under the single-holder discipline.  With every thread
\* and exit() scheduled fairly, no state short of the end has no step to
\* take, and every run in which no startup-fatal exit happens ends with all
\* threads having run all their pairs.
NoDeadlock ==
    /\ [](AllDone \/ StartupFailed \/ ENABLED Next)
    /\ <>(AllDone \/ StartupFailed)

\* All pairs have been run on a blocking strategy without any exit.
NoDeadlockWitness ==
    /\ AllDone
    /\ proc.state = "running"
    /\ kind \in MutexStrategies

\* C6: a failed construction is fatal.  Once mtx_init has reported an error
\* the process is exiting with EXIT_FAILURE, mtx_init has run once, and no
\* thread has returned from lock(), is at mtx_lock, or owns the mutex.
ConstructionFailureFatal ==
    initFailed =>
        /\ proc.state # "running"
        /\ proc.status = EXIT_FAILURE
        /\ initCalls = 1
        /\ mutex.owner = 0
        /\ mutex.state # "constructed"
        /\ ~SomeLockReturned
        /\ \A t \in Threads : pc[t] # "mtx_lock"

\* mtx_init failed while another first caller was held in call_once.
ConstructionFailureFatalWitness ==
    /\ initFailed
    /\ proc.state = "terminated"
    /\ \E t \in Threads : pc[t] = "call_once"

\* C7: a failed version check is fatal.  In the Windows strategy a caller
\* whose check failed has called exit(EXIT_FAILURE); and the critical
\* section is initialized, the once-guard reached or a lock() returned only
\* after some check has succeeded, which it never does below version 6.
VersionFailureFatal ==
    kind = "WinCS" =>
        /\ (\E t \in Threads : pc[t] = "in_exit") =>
               proc.state # "running" /\ proc.status = EXIT_FAILURE
        /\ ( \/ mutex.state # "raw"
             \/ once # "uninit"
             \/ winver_checked
             \/ SomeLockReturned
             \/ \E t \in Threads :
                  pc[t] \in OnceGuardPcs \cup ConstructingPcs \cup AcquirePcs ) => verOk
        /\ verOk => os >= VISTA_MAJOR

\* On an old system every concurrent first caller has failed its check.
VersionFailureFatalWitness ==
    /\ kind = "WinCS"
    /\ os < VISTA_MAJOR
    /\ proc.state = "terminated"
    /\ verCalls >= 2

\* C8: every startup-fatal exit carries a diagnostic.  Whenever exit() has
\* been called, something was written to stderr before, and the status is
\* not zero.
FatalExitHasDiagnostic ==
    proc.state # "running" => (diag /\ proc.status # 0)

(***************************************************************************)
(* C9.  The facts as the claim names them.                                 *)
(***************************************************************************)
Priority ==
    << "C11Mutex", "PosixMutex", "WinCS", "AtomicFlag", "GccAtomic", "GccSync" >>

GccVersionAtLeast(b, major, minor) ==
    b.gnuc_minor_def /\ (b.gnuc > major \/ (b.gnuc = major /\ b.gnuc_minor >= minor))

CandidateAvailable(b, k) ==
    CASE k = "C11Mutex"   -> b.stdc_version >= 201112 /\ ~b.stdc_no_threads
      [] k = "PosixMutex" -> b.posix_threads > 0
      [] k = "WinCS"      -> b.win32 /\ b.win32_winnt >= 1536
      [] k = "AtomicFlag" -> b.stdc_version >= 201112 /\ ~b.stdc_no_atomics
      [] k = "GccAtomic"  -> /\ b.gnuc > 0
                             /\ IF b.has_builtin_def THEN b.hb_atomic
                                ELSE GccVersionAtLeast(b, 4, 7)
      [] k = "GccSync"    -> /\ b.gnuc > 0
                             /\ IF b.has_builtin_def THEN b.hb_sync
                                ELSE /\ GccVersionAtLeast(b, 4, 1)
                                     /\ b.gnuc = 4
                                     /\ ~b.clang

FirstAvailable(b) ==
    LET avail == {i \in 1..Len(Priority) : CandidateAvailable(b, Priority[i])}
    IN  IF avail = {} THEN "BuildError"
        ELSE Priority[CHOOSE i \in avail : \A j \in avail : i <= j]

\* C9 as stated: the build binds the first available candidate and fails
\* if and only if none is available.
SelectionFirstAvailable ==
    kind # "unbuilt" => kind = FirstAvailable(build)

\* C9, amended: a build with _WIN32 defined and _WIN32_WINNT undefined or
\* below 0x0600 fails whatever else is available; every other build binds
\* the first available candidate and fails if and only if none is available.
SelectionFirstAvailableAfterGuard ==
    kind # "unbuilt" =>
        kind = IF build.win32 /\ build.win32_winnt < 1536
                 THEN "BuildError"
                 ELSE FirstAvailable(build)

\* A Windows build with C11 threads whose declared version is too low.
SelectionWitness ==
    /\ kind = "BuildError"
    /\ build.win32
    /\ build.win32_winnt < 1536
    /\ CandidateAvailable(build, "C11Mutex")

SpinWaitSelection ==
    kind \in Strategies =>
        /\ spin_wait.op # "undefined" <=> kind \in SpinStrategies
        /\ kind \in SpinStrategies =>
             /\ build.x86 => spin_wait.op = "_mm_pause"
             /\ (~build.x86 /\ build.posix_prio_sched) => spin_wait.op = "sched_yield"
             /\ (~build.x86 /\ ~build.posix_prio_sched) =>
                    spin_wait.op = "busy_loop" /\ spin_wait.iterations = 1000

\* A spin-lock build for a target that is not x86 and has sched_yield.
SpinWaitSelectionWitness ==
    /\ kind \in SpinStrategies
    /\ ~build.x86
    /\ build.posix_prio_sched
    /\ spin_wait.op = "sched_yield"

\* C11: global_lock_quit is a no-op for the spin-locks.  With the
\* atomic-flag, builtin-exchange or builtin-test-and-set strategy, a call of
\* global_lock_quit leaves the flag and every other piece of lock state (and
\* every thread's position) as it was, whether the lock is free or held.
QuitIsNoOpForSpin ==
    [][ (kind \in SpinStrategies /\ quit_on' # quit_on) =>
            UNCHANGED << lock_flag, mutex, once, winver_checked, pc, pairsLeft,
                         counter, tmp, proc, initCalls, verCalls >> ]_vars

\* global_lock_quit was called while a thread held the lock; the flag is
\* still set and the holder still in its critical section.
QuitIsNoOpForSpinWitness ==
    /\ kind \in SpinStrategies
    /\ quit_on = "flag_set"
    /\ lock_flag = 1
    /\ \E t \in Threads : pc[t] \in InCS

\* C12: lifecycle created-then-destroyed.  In every run that obeys the caller
\* contract of global_lock_quit, for any number of lock()/unlock() pairs
\* before it (zero included), the mutex or critical section that
\* global_lock_quit destroys has been constructed.
QuitDestroysConstructed ==
    (kind \in MutexStrategies /\ quit_on # "not_called") => quit_on = "constructed"

\* The positions of a thread inside lock(), exit() included.
InLockPcs ==
    {"call_once", "init_mtx", "call_once_ret", "mtx_lock", "pthread_mutex_lock",
     "winver_test", "is_windows_vista_or_later", "winver_set",
     "InitOnceExecuteOnce", "InitCriticalSection", "InitOnce_ret",
     "EnterCriticalSection", "test_and_set", "SPIN_WAIT", "in_exit"}

SpinLoopPcs == {"test_and_set", "SPIN_WAIT"}

\* C13: a holder that never releases starves everyone.  While a thread that
\* has acquired the lock never calls unlock(), it keeps the lock, no other
\* thread is in or enters the critical section, and every other thread
\* inside lock() stays inside lock(): in the spin strategies inside the
\* test-and-set / SPIN_WAIT loop, where its next attempt is always enabled
\* (no timeout, no retry cap); in the mutex strategies blocked at the
\* acquiring call.  lock() never returns without having acquired.
HolderNeverReleasesStarves ==
    [][ /\ \A t \in Threads : pc[t] = "never_unlocks" =>
              /\ pc'[t] = "never_unlocks"
              /\ (kind \in SpinStrategies => lock_flag = 1 /\ lock_flag' = 1)
              /\ (kind \in MutexStrategies => mutex.owner = t /\ mutex'.owner = t)
              /\ \A u \in Threads \ {t} :
                    /\ pc[u] \notin InCS /\ pc'[u] \notin InCS
                    /\ pc[u] \in InLockPcs => pc'[u] \in InLockPcs
                    /\ pc[u] \in SpinLoopPcs =>
                          pc'[u] \in SpinLoopPcs /\ ENABLED ThreadStep(u)
                    /\ pc[u] \in {"mtx_lock", "pthread_mutex_lock",
                                  "EnterCriticalSection"} =>
                          pc'[u] = pc[u] /\ ~ENABLED ThreadStep(u)
        /\ \A u \in Threads :
              (pc[u] \in InLockPcs /\ pc'[u] \notin InLockPcs) =>
                  /\ pc'[u] = "cs_read"
                  /\ IF kind \in SpinStrategies
                       THEN lock_flag = 0 /\ lock_flag' = 1
                       ELSE mutex.owner = 0 /\ mutex'.owner = u ]_vars

\* A thread keeps the lock for good while another spins in SPIN_WAIT.
HolderNeverReleasesStarvesWitness ==
    \E t, u \in Threads :
        /\ kind \in SpinStrategies
        /\ pc[t] = "never_unlocks"
        /\ pc[u] = "SPIN_WAIT"

\* The statement that is_windows_vista_or_later runs at most once per process.
VersionCheckAtMostOnce == verCalls <= 1

\* C14: the Windows version check runs once per thread at most.  Over any
\* interleaving of lock() calls, is_windows_vista_or_later is executed only
\* in a thread's first lock() call, hence at most once by each thread
\* (concurrent first calls can each execute it), and a thread that has
\* returned from lock() before never executes it again; winver_checked is
\* true only after some execution has succeeded and never goes back to false.
VersionCheckOncePerThread ==
    /\ verCalls <= NumThreads
    /\ \A t \in Threads :
          pc[t] \in {"is_windows_vista_or_later", "winver_set"} =>
              kind = "WinCS" /\ pairsLeft[t] = NumPairs
    /\ winver_checked => verOk /\ verCalls >= 1
    /\ kind # "WinCS" => verCalls = 0 /\ ~winver_checked

\* Every thread has executed the check, in concurrent first calls.
VersionCheckOncePerThreadWitness ==
    /\ kind = "WinCS"
    /\ verCalls = NumThreads
    /\ winver_checked
    /\ \A t \in Threads : pairsLeft[t] = NumPairs

\* The lock objects of the header, as one value.
LockObjects == [flag |-> lock_flag, mutex |-> mutex, once |-> once]

\* The lock of strategy k, ready and free.
ReadyFree(k) ==
    [flag  |-> 0,
     mutex |-> [state |-> IF k \in MutexStrategies THEN "constructed" ELSE "none",
                owner |-> 0],
     once  |-> IF k \in LazyStrategies THEN "ready" ELSE "none"]

\* The lock of strategy k, held by thread t.
HeldBy(k, t) ==
    IF k \in MutexStrategies
      THEN [ReadyFree(k) EXCEPT !.mutex.owner = t]
      ELSE [ReadyFree(k) EXCEPT !.flag = 1]

\* C15: lock() followed by unlock() is a round trip.  lock() returns only
\* from the ready-and-free lock state and leaves the state "held by the
\* caller"; that state stays as it is until the caller's unlock(), and the
\* unlock() step restores exactly the ready-and-free state (flag clear,
\* mutex unowned, init marker ready), from which any thread with a pair
\* left can call lock() again.
LockUnlockRoundTrip ==
    [][ \A t \in Threads :
          /\ (pc[t] \notin InCS /\ pc'[t] = "cs_read") =>
                 LockObjects = ReadyFree(kind) /\ LockObjects' = HeldBy(kind, t)
          /\ (pc[t] \in InCS /\ pc'[t] \in InCS) =>
                 LockObjects = HeldBy(kind, t) /\ LockObjects' = HeldBy(kind, t)
          /\ (pc[t] = "unlock" /\ pc'[t] # "unlock") =>
                 /\ LockObjects = HeldBy(kind, t)
                 /\ LockObjects' = ReadyFree(kind)
                 /\ pairsLeft'[t] > 0 => pc'[t] = "idle" ]_vars

\* A thread is in its second pair, after a pair of the other thread: the
\* round trip has been made by more than one thread and is being repeated.
LockUnlockRoundTripWitness ==
    \E t, u \in Threads :
        /\ t # u
        /\ pairsLeft[t] < NumPairs
        /\ pairsLeft[u] < NumPairs
        /\ pc[t] \in InCS
        /\ LockObjects = HeldBy(kind, t)

\* The threads between lock()'s return and the store of their unlock().
Holders == {u \in Threads : pc[u] \in InCS}

\* C16: a failed acquisition attempt changes nothing.  In the spin-lock
\* strategies an exchange that finds the flag set leaves it set and takes
\* the thread to SPIN_WAIT; SPIN_WAIT leaves the flag as it is and takes the
\* thread back to the exchange; both leave the holder, every other thread
\* and all other lock state unchanged.  The only step of a thread in the
\* loop that changes lock state is an exchange that finds the flag clear.
FailedAttemptChangesNothing ==
    [][ (kind \in SpinStrategies) =>
          \A t \in Threads :
             /\ (pc[t] = "test_and_set" /\ pc'[t] # pc[t] /\ lock_flag = 1) =>
                    /\ pc'[t] = "SPIN_WAIT"
                    /\ lock_flag' = 1
             /\ (pc[t] = "SPIN_WAIT" /\ pc'[t] # pc[t]) =>
                    /\ pc'[t] = "test_and_set"
                    /\ lock_flag' = lock_flag
             /\ (pc[t] \in SpinLoopPcs /\ pc'[t] \in SpinLoopPcs /\ pc'[t] # pc[t]) =>
                    /\ Holders' = Holders
                    /\ \A u \in Threads \ {t} : pc'[u] = pc[u]
                    /\ UNCHANGED << lock_flag, mutex, once, winver_checked,
                                    counter, tmp, pairsLeft, proc >>
             /\ (pc[t] \in SpinLoopPcs /\ pc'[t] # pc[t] /\ pc'[t] \notin SpinLoopPcs) =>
                    /\ pc[t] = "test_and_set"
                    /\ lock_flag = 0 /\ lock_flag' = 1
                    /\ pc'[t] = "cs_read" ]_vars

\* A thread has failed an attempt and is in SPIN_WAIT while another holds
\* the lock; the flag is still set and the holder the same.
FailedAttemptChangesNothingWitness ==
    \E t, u \in Threads :
        /\ kind \in SpinStrategies
        /\ pc[t] = "SPIN_WAIT"
        /\ pc[u] \in InCS
        /\ lock_flag = 1
        /\ Holders = {u}

\* C18: the spin flag and the holder.  In the spin-lock strategies, with
\* callers that keep the lock/unlock discipline, in every reachable state
\* the flag is 0 or 1, and it is 1 if and only if exactly one thread is
\* between its successful exchange and the store of its unlock(); no
\* initialization is ever run, the flag is clear at the start, and a lock()
\* that no other thread contends acquires on its first attempt.
SpinFlagHolderInvariant ==
    kind \in SpinStrategies =>
        /\ lock_flag \in {0, 1}
        /\ Cardinality(Holders) <= 1
        /\ lock_flag = 1 <=> Cardinality(Holders) = 1
        /\ initCalls = 0 /\ once = "none" /\ mutex.state = "none"
        /\ (\A t \in Threads : pc[t] = "idle" /\ pairsLeft[t] = NumPairs) => lock_flag = 0
        /\ \A t \in Threads :
              (pc[t] = "test_and_set" /\ \A u \in Threads \ {t} : pc[u] \in {"idle", "done"}) =>
                  /\ lock_flag = 0
                  /\ ENABLED (TestAndSet(t) /\ pc'[t] = "cs_read")
                  /\ ~ENABLED (TestAndSet(t) /\ pc'[t] = "SPIN_WAIT")

\* The first lock() of the run, uncontended, has acquired.
SpinFlagHolderInvariantWitness ==
    \E t \in Threads :
        /\ kind \in SpinStrategies
        /\ lock_flag = 1
        /\ Holders = {t}
        /\ \A u \in Threads : pairsLeft[u] = NumPairs
        /\ \A u \in Threads \ {t} : pc[u] = "idle"

\* Thread t is inside a second lock() that it called while holding the lock.
InSecondLock(t) == t \in nested /\ pc[t] \in SpinLoopPcs

\* C19: the lock is not recursive.  In the spin-lock strategies a thread
\* that holds the lock and calls lock() again enters the retry loop with the
\* flag set; while the flag is set each of its own steps keeps it in the
\* loop and the flag set, and its next step is always enabled (it spins);
\* the flag is cleared only by an unlock() of another thread, and the second
\* lock() returns only from an exchange that finds the flag clear.
NonRecursive ==
    [][ \A t \in Threads :
          /\ (t \notin nested /\ t \in nested') =>
                 /\ pc[t] \in InCS
                 /\ lock_flag = 1 /\ lock_flag' = 1
                 /\ pc'[t] = "test_and_set"
          /\ InSecondLock(t) =>
                 /\ ENABLED ThreadStep(t)
                 /\ pc'[t] \in SpinLoopPcs \cup {"cs_read"}
                 /\ pc'[t] = "cs_read" => lock_flag = 0 /\ lock_flag' = 1
                 /\ (lock_flag = 1 /\ pc'[t] # pc[t]) =>
                        pc'[t] \in SpinLoopPcs /\ lock_flag' = 1
                 /\ (lock_flag = 1 /\ lock_flag' = 0) =>
                        \E u \in Threads \ {t} :
                            /\ pc[u] \in {"unlock", "unlock_misuse"}
                            /\ pc'[u] # pc[u] ]_vars

\* A thread spins in its second lock() with the flag set by its first,
\* and no other thread is running.
NonRecursiveWitness ==
    \E t \in Threads :
        /\ InSecondLock(t)
        /\ pc[t] = "SPIN_WAIT"
        /\ lock_flag = 1
        /\ \A u \in Threads \ {t} : pc[u] = "done"

\* C17: acquisition order is not FIFO for the spin-locks.  Every run of the
\* schedule UnfairSpec is a run of the looping program (each step is a step
\* of lock(), unlock() or a caller) that is weakly fair to every thread's
\* steps.  In it the victim is from some moment on waiting in lock() for
\* good and keeps retrying; some contender is, again and again, outside
\* lock() while the victim waits and later holds the lock, so it began to
\* wait after the victim and acquired before it; the victim never acquires.
NotFifo ==
    /\ [][LoopNext]_vars
    /\ \A t \in Threads : WF_vars(LoopThreadStep(t))
    /\ [](pc[Victim] \notin InCS)
    /\ [](pc[Victim] \in SpinLoopPcs => ENABLED LoopThreadStep(Victim))
    /\ <>[](pc[Victim] \in SpinLoopPcs)
    /\ []<>(pc[Victim] = "SPIN_WAIT")
    /\ \E c \in Threads \ {Victim} :
          /\ []<>(pc[Victim] \in SpinLoopPcs /\ pc[c] \in {"idle", "done"})
          /\ []<>(pc[Victim] \in SpinLoopPcs /\ pc[c] = "cs_read")

\* A contender that has been through the lock before holds it again, while
\* the victim, still in its first lock(), waits.
NotFifoWitness ==
    \E c \in Threads \ {Victim} :
        /\ kind \in SpinStrategies
        /\ pc[Victim] = "SPIN_WAIT"
        /\ pairsLeft[Victim] = NumPairs
        /\ pc[c] \in InCS
        /\ pairsLeft[c] < NumPairs
        /\ counter = 1

====
